---- MODULE Spec2Model ----
(***************************************************************************)
(* Job queue (JobQueueService over the job_queue table) and worker pool    *)
(* (Worker.Start / processNextJob / Stop and main) of go-echo-sample.      *)
(*                                                                         *)
(* The job_queue table is the sequence jobs; a row's id is its index       *)
(* (INTEGER PRIMARY KEY AUTOINCREMENT, no delete query exists).  Every SQL *)
(* statement is one atomic step; GetNextJob is two statements, so a worker *)
(* has a position between its SELECT and its UPDATE.  A goroutine started   *)
(* by processNextJob touches shared state once, in its report, so it is    *)
(* one step.  Time is counted in minutes and advances in steps of          *)
(* BackoffMinutes.                                                         *)
(*                                                                         *)
(* Spec         the pool in normal operation: every kind of job            *)
(* SpecQueue    one worker and more jobs, all of them user_created jobs    *)
(*              with a user id                                             *)
(* SpecShutdown the pool with the shutdown signal                          *)
(* SpecSignal   SpecShutdown with a single signal and fair scheduling      *)
(* SpecCreateUser  DatabaseService.CreateUser beside one worker            *)
(* SpecList     JobQueueService.ListJobs beside one worker                 *)
(* SpecFault    one worker and a store whose statements can fail           *)
(* SpecPickup   one worker polling fairly, handlers that succeed           *)
(***************************************************************************)
EXTENDS FiniteSets, Integers, Sequences, TLC

\* ---------------------------------------------------------------- bounds
NumWorkers == 2
MaxJobs == 2
MaxPoolJobs == 1
MaxTicks == 3
MaxDispatched == 4
MaxUsers == 2
MaxLimit == 2
MaxListJobs == 2

\* ------------------------------------------------------ program constants
BackoffMinutes == 5
DefaultMaxRetries == 3
UserCreatedPriority == 1

Null == -1
NoMsg == "NULL"
ParseMsg == "Failed to parse payload"
NoProcessorMsg == "No processor for job type"
HandlerMsg == "handler error"

Workers == 1..NumWorkers
Priorities == {0, 1}
\* payload text that json.Unmarshal rejects for JobPayload (user_id is *int64)
CorruptPayload == "{user_id:x}"

processors == {"user_created", "data_analysis", "email_notification"}

VARIABLES
    jobs,          \* the job_queue table
    now,           \* CURRENT_TIMESTAMP / time.Now(), in minutes
    wpc,           \* per worker: position of the Start loop
    sel,           \* per worker: the row GetNextPendingJob returned
    stopCh,        \* per worker: stopCh is closed
    processingWg,  \* per worker: counter of processingWg
    tasks,         \* per worker: the goroutines started by processNextJob
    dispatched,    \* number of goroutines processNextJob has started
    attempts,      \* per job id: number of processor.Process invocations
    crashed,       \* the worker process died of a panic
    mainPc,        \* position of main
    stopIdx,       \* index of main's loop over workers
    statsPc,       \* position of the stats goroutine
    wg,            \* counter of main's wait group
    users,         \* number of rows of the users table
    createUserRet, \* what the last call of DatabaseService.CreateUser returned
    listJobsRet    \* ids of the rows the last call of ListJobs returned, in order

vars == <<jobs, now, wpc, sel, stopCh, processingWg, tasks, dispatched, attempts,
          crashed, mainPc, stopIdx, statsPc, wg, users, createUserRet,
          listJobsRet>>

workerVars == <<wpc, sel, stopCh, processingWg, tasks, dispatched, attempts, crashed>>
mainVars == <<mainPc, stopIdx, statsPc, wg>>
callerVars == <<users, createUserRet, listJobsRet>>

\* no call of CreateUser has returned yet
NoRet == [user |-> 0, err |-> FALSE]

NoSel == [id |-> 0, job_type |-> "", payload |-> "", retry_count |-> 0, max_retries |-> 0]

\* ------------------------------------------------------------- the store

\* the INSERT leaving priority to the schema's DEFAULT 0
CreateJobDefaultPriority(js, jobType, payload, priority, maxRetries, scheduledAt, t) ==
    Append(js, [job_type |-> jobType, payload |-> payload, status |-> "pending",
                priority |-> 0, max_retries |-> maxRetries, retry_count |-> 0,
                error_message |-> NoMsg, scheduled_at |-> scheduledAt,
                started_at |-> Null, completed_at |-> Null, created_at |-> t])

\* INSERT INTO job_queue (...) VALUES (...) with the schema's defaults
CreateJob(js, jobType, payload, priority, maxRetries, scheduledAt, t) ==
    Append(js, [job_type |-> jobType, payload |-> payload, status |-> "pending",
                priority |-> priority, max_retries |-> maxRetries, retry_count |-> 0,
                error_message |-> NoMsg, scheduled_at |-> scheduledAt,
                started_at |-> Null, completed_at |-> Null, created_at |-> t])

\* scheduled_at < CURRENT_TIMESTAMP in place of <=
EligibleStrictlyPast(js, t) ==
    {i \in DOMAIN js : /\ js[i].status = "pending"
                       /\ js[i].scheduled_at < t
                       /\ js[i].retry_count < js[i].max_retries}

\* WHERE status = 'pending' AND scheduled_at <= CURRENT_TIMESTAMP AND retry_count < max_retries
Eligible(js, t) ==
    {i \in DOMAIN js : /\ js[i].status = "pending"
                       /\ js[i].scheduled_at <= t
                       /\ js[i].retry_count < js[i].max_retries}

\* ORDER BY priority ASC in place of DESC
OrderBeforeAscending(a, b) ==
    \/ a.priority < b.priority
    \/ a.priority = b.priority /\ a.scheduled_at < b.scheduled_at

\* ORDER BY priority DESC, scheduled_at ASC
OrderBefore(a, b) ==
    \/ a.priority > b.priority
    \/ a.priority = b.priority /\ a.scheduled_at < b.scheduled_at

\* the rows LIMIT 1 can return: the order of rows equal in both keys is unspecified
GetNextPendingJob(js, t) ==
    {i \in Eligible(js, t) : \A k \in Eligible(js, t) : ~OrderBefore(js[k], js[i])}

\* the update written as a replacement of the row, priority falling back to DEFAULT 0
UpdateJobStatusReplaceRow(js, id, status, startedAt, completedAt, msg) ==
    [js EXCEPT ![id] = [@ EXCEPT !.status = status, !.started_at = startedAt,
                                 !.completed_at = completedAt, !.error_message = msg,
                                 !.priority = 0]]

\* UPDATE job_queue SET status, started_at, completed_at, error_message WHERE id = ?
UpdateJobStatus(js, id, status, startedAt, completedAt, msg) ==
    [js EXCEPT ![id] = [@ EXCEPT !.status = status, !.started_at = startedAt,
                                 !.completed_at = completedAt, !.error_message = msg]]

\* the delay computed from retry_count in place of retry_count + 1
IncrementJobRetryOffByOne(js, id, msg, t) ==
    [js EXCEPT ![id] = [@ EXCEPT !.retry_count = @ + 1, !.status = "pending",
                                 !.scheduled_at = t + js[id].retry_count * BackoffMinutes,
                                 !.error_message = msg]]

\* the retry leaving error_message as it is
IncrementJobRetryNoMessage(js, id, msg, t) ==
    [js EXCEPT ![id] = [@ EXCEPT !.retry_count = @ + 1, !.status = "pending",
                                 !.scheduled_at = t + (js[id].retry_count + 1) * BackoffMinutes]]

\* UPDATE job_queue SET retry_count = retry_count + 1, status = 'pending', scheduled_at = ..., error_message WHERE id = ?
IncrementJobRetry(js, id, msg, t) ==
    [js EXCEPT ![id] = [@ EXCEPT !.retry_count = @ + 1, !.status = "pending",
                                 !.scheduled_at = t + (js[id].retry_count + 1) * BackoffMinutes,
                                 !.error_message = msg]]

\* COUNT(CASE WHEN status = st THEN 1 END) over the rows of job_queue
RECURSIVE CountStatus(_, _)
CountStatus(js, st) ==
    IF js = << >> THEN 0
    ELSE (IF Head(js).status = st THEN 1 ELSE 0) + CountStatus(Tail(js), st)

\* the processing count matching 'process', a status no row has
GetJobStatsMisspelt(js) ==
    [pending_count |-> CountStatus(js, "pending"),
     processing_count |-> CountStatus(js, "process"),
     completed_count |-> CountStatus(js, "completed"),
     failed_count |-> CountStatus(js, "failed")]

\* SELECT COUNT(CASE ...) as pending_count, ... FROM job_queue
GetJobStats(js) ==
    [pending_count |-> CountStatus(js, "pending"),
     processing_count |-> CountStatus(js, "processing"),
     completed_count |-> CountStatus(js, "completed"),
     failed_count |-> CountStatus(js, "failed")]

\* the orders in which the rows with ids in ids can come
RowOrders(ids) ==
    {r \in [1..Cardinality(ids) -> ids] : \A a, b \in DOMAIN r : a # b => r[a] # r[b]}

\* ORDER BY created_at DESC: rows equal in created_at come in either order
NewestFirst(js, ids) ==
    {r \in RowOrders(ids) :
        \A a, b \in DOMAIN r : a < b => js[r[a]].created_at >= js[r[b]].created_at}

\* the first limit elements of r
Limit(r, limit) == SubSeq(r, 1, IF Len(r) < limit THEN Len(r) ELSE limit)

\* ORDER BY created_at ASC in place of DESC
ListJobsOldestFirst(js, status, limit) ==
    {Limit(r, limit) : r \in {q \in RowOrders({i \in DOMAIN js : js[i].status = status}) :
        \A a, b \in DOMAIN q : a < b => js[q[a]].created_at <= js[q[b]].created_at}}

\* SELECT * FROM job_queue WHERE status = ? ORDER BY created_at DESC LIMIT ?
ListJobs(js, status, limit) ==
    {Limit(r, limit) : r \in NewestFirst(js, {i \in DOMAIN js : js[i].status = status})}

\* -------------------------------------------------------- JobQueueService

\* json.Marshal(payload): user_id has omitempty
Marshal(payload) == IF payload = "with_user_id" THEN "{user_id:1}" ELSE "{}"

\* json.Unmarshal([]byte(job.Payload), &payload) returns no error
UnmarshalOk(text) == text \in {"{user_id:1}", "{}"}

\* the JobPayload json.Unmarshal fills in
Unmarshal(text) == IF text = "{user_id:1}" THEN "with_user_id" ELSE "no_user_id"

\* a completion that accepts only a processing job and marks any other failed
CompleteJobGuarded(js, id, t) ==
    IF js[id].status = "processing"
    THEN UpdateJobStatus(js, id, "completed", Null, t, NoMsg)
    ELSE UpdateJobStatus(js, id, "failed", Null, t, "not processing")

CompleteJob(js, id, t) == UpdateJobStatus(js, id, "completed", Null, t, NoMsg)

FailJob(js, id, msg, retry, t) ==
    IF retry THEN IncrementJobRetry(js, id, msg, t)
    ELSE UpdateJobStatus(js, id, "failed", Null, t, msg)

Alive == ~crashed /\ mainPc # "exited"

\* EnqueueJob as called by CreateUser and by worker-manager enqueue; storeOk = FALSE: the INSERT fails
EnqueueJob(jobType, payload, priority, storeOk) ==
    /\ jobs' = IF storeOk
               THEN CreateJob(jobs, jobType, Marshal(payload), priority, DefaultMaxRetries, now, now)
               ELSE jobs
    /\ attempts' = IF storeOk THEN attempts @@ (Len(jobs) + 1 :> 0) ELSE attempts
    /\ UNCHANGED <<now, wpc, sel, stopCh, processingWg, tasks, dispatched, crashed>>
    /\ UNCHANGED mainVars
    /\ UNCHANGED callerVars

\* CreateUser returning the error of EnqueueJob to its caller
CreateUserReturnsJobErr(insertOk, enqueueOk) ==
    /\ IF insertOk
       THEN /\ users' = users + 1
            /\ jobs' = IF enqueueOk
                       THEN CreateJob(jobs, "user_created", Marshal("with_user_id"),
                                      UserCreatedPriority, DefaultMaxRetries, now, now)
                       ELSE jobs
            /\ attempts' = IF enqueueOk THEN attempts @@ (Len(jobs) + 1 :> 0) ELSE attempts
            /\ createUserRet' = IF enqueueOk THEN [user |-> users + 1, err |-> FALSE]
                                 ELSE [user |-> 0, err |-> TRUE]
       ELSE /\ createUserRet' = [user |-> 0, err |-> TRUE]
            /\ UNCHANGED <<users, jobs, attempts>>
    /\ UNCHANGED <<now, wpc, sel, stopCh, processingWg, tasks, dispatched, crashed>>
    /\ UNCHANGED mainVars
    /\ UNCHANGED listJobsRet

\* DatabaseService.CreateUser: INSERT the user, then EnqueueJob(JobUserCreated, payload
\* with UserID, 1), whose error is printed and dropped. insertOk = FALSE: the INSERT of
\* the user fails; enqueueOk = FALSE: EnqueueJob fails
CreateUser(insertOk, enqueueOk) ==
    /\ IF insertOk
       THEN /\ users' = users + 1
            /\ jobs' = IF enqueueOk
                       THEN CreateJob(jobs, "user_created", Marshal("with_user_id"),
                                      UserCreatedPriority, DefaultMaxRetries, now, now)
                       ELSE jobs
            /\ attempts' = IF enqueueOk THEN attempts @@ (Len(jobs) + 1 :> 0) ELSE attempts
            /\ createUserRet' = [user |-> users + 1, err |-> FALSE]
       ELSE /\ createUserRet' = [user |-> 0, err |-> TRUE]
            /\ UNCHANGED <<users, jobs, attempts>>
    /\ UNCHANGED <<now, wpc, sel, stopCh, processingWg, tasks, dispatched, crashed>>
    /\ UNCHANGED mainVars
    /\ UNCHANGED listJobsRet

\* JobQueueService.ListJobs as called by worker-manager list
ListJobsCall(status, limit) ==
    /\ listJobsRet' \in ListJobs(jobs, status, limit)
    /\ UNCHANGED <<jobs, now, wpc, sel, stopCh, processingWg, tasks, dispatched, attempts, crashed>>
    /\ UNCHANGED mainVars
    /\ UNCHANGED <<users, createUserRet>>

\* a row written through the CreateJob query by another writer of the table, whose payload text is not a JobPayload
CreateJobForeign(jobType, priority) ==
    /\ jobs' = CreateJob(jobs, jobType, CorruptPayload, priority, DefaultMaxRetries, now, now)
    /\ attempts' = attempts @@ (Len(jobs) + 1 :> 0)
    /\ UNCHANGED <<now, wpc, sel, stopCh, processingWg, tasks, dispatched, crashed>>
    /\ UNCHANGED mainVars
    /\ UNCHANGED callerVars

\* time passes
AdvanceClock ==
    /\ now < MaxTicks * BackoffMinutes
    /\ now' = now + BackoffMinutes
    /\ UNCHANGED <<jobs, wpc, sel, stopCh, processingWg, tasks, dispatched, attempts, crashed>>
    /\ UNCHANGED mainVars
    /\ UNCHANGED callerVars

\* ---------------------------------------------------------------- Worker

\* processNextJob running the handler in the loop itself: no poll while a job is in flight
GetNextJobSelectBlocking(w, storeOk) ==
    /\ Alive
    /\ wpc[w] = "select"
    /\ tasks[w] = {}
    /\ dispatched + Cardinality({v \in Workers : wpc[v] = "claim"}) < MaxDispatched
    /\ IF storeOk /\ GetNextPendingJob(jobs, now) # {}
       THEN \E j \in GetNextPendingJob(jobs, now) :
                /\ sel' = [sel EXCEPT ![w] = [id |-> j, job_type |-> jobs[j].job_type,
                                              payload |-> jobs[j].payload,
                                              retry_count |-> jobs[j].retry_count,
                                              max_retries |-> jobs[j].max_retries]]
                /\ wpc' = [wpc EXCEPT ![w] = "claim"]
       ELSE UNCHANGED <<sel, wpc>>
    /\ UNCHANGED <<jobs, now, stopCh, processingWg, tasks, dispatched, attempts, crashed>>
    /\ UNCHANGED mainVars
    /\ UNCHANGED callerVars

\* case <-ticker.C: of the select in Start, and the first statement of GetNextJob
GetNextJobSelect(w, storeOk) ==
    /\ Alive
    /\ wpc[w] = "select"
    /\ dispatched + Cardinality({v \in Workers : wpc[v] = "claim"}) < MaxDispatched
    /\ IF storeOk /\ GetNextPendingJob(jobs, now) # {}
       THEN \E j \in GetNextPendingJob(jobs, now) :
                /\ sel' = [sel EXCEPT ![w] = [id |-> j, job_type |-> jobs[j].job_type,
                                              payload |-> jobs[j].payload,
                                              retry_count |-> jobs[j].retry_count,
                                              max_retries |-> jobs[j].max_retries]]
                /\ wpc' = [wpc EXCEPT ![w] = "claim"]
       ELSE UNCHANGED <<sel, wpc>>
    /\ UNCHANGED <<jobs, now, stopCh, processingWg, tasks, dispatched, attempts, crashed>>
    /\ UNCHANGED mainVars
    /\ UNCHANGED callerVars

NewTask(s) ==
    [id |-> s.id, job_type |-> s.job_type, payload |-> s.payload,
     retry_count |-> s.retry_count, max_retries |-> s.max_retries]

\* processNextJob without the return on the error of GetNextJob
GetNextJobUpdateNoReturn(w, storeOk) ==
    /\ Alive
    /\ wpc[w] = "claim"
    /\ jobs' = IF storeOk THEN UpdateJobStatus(jobs, sel[w].id, "processing", now, Null, NoMsg)
               ELSE jobs
    /\ processingWg' = [processingWg EXCEPT ![w] = @ + 1]
    /\ tasks' = [tasks EXCEPT ![w] = @ \cup {NewTask(sel[w])}]
    /\ dispatched' = dispatched + 1
    /\ sel' = [sel EXCEPT ![w] = NoSel]
    /\ wpc' = [wpc EXCEPT ![w] = "select"]
    /\ UNCHANGED <<now, stopCh, attempts, crashed>>
    /\ UNCHANGED mainVars
    /\ UNCHANGED callerVars

\* the dispatch without processingWg.Add(1) before go func()
GetNextJobUpdateNoAdd(w, storeOk) ==
    /\ Alive
    /\ wpc[w] = "claim"
    /\ IF storeOk
       THEN /\ jobs' = UpdateJobStatus(jobs, sel[w].id, "processing", now, Null, NoMsg)
            /\ tasks' = [tasks EXCEPT ![w] = @ \cup {NewTask(sel[w])}]
            /\ dispatched' = dispatched + 1
       ELSE UNCHANGED <<jobs, tasks, dispatched>>
    /\ UNCHANGED processingWg
    /\ sel' = [sel EXCEPT ![w] = NoSel]
    /\ wpc' = [wpc EXCEPT ![w] = "select"]
    /\ UNCHANGED <<now, stopCh, attempts, crashed>>
    /\ UNCHANGED mainVars
    /\ UNCHANGED callerVars

\* GetNextJob, second statement, and the dispatch of processNextJob
GetNextJobUpdate(w, storeOk) ==
    /\ Alive
    /\ wpc[w] = "claim"
    /\ IF storeOk
       THEN /\ jobs' = UpdateJobStatus(jobs, sel[w].id, "processing", now, Null, NoMsg)
            /\ processingWg' = [processingWg EXCEPT ![w] = @ + 1]
            /\ tasks' = [tasks EXCEPT ![w] = @ \cup {NewTask(sel[w])}]
            /\ dispatched' = dispatched + 1
       ELSE UNCHANGED <<jobs, processingWg, tasks, dispatched>>
    /\ sel' = [sel EXCEPT ![w] = NoSel]
    /\ wpc' = [wpc EXCEPT ![w] = "select"]
    /\ UNCHANGED <<now, stopCh, attempts, crashed>>
    /\ UNCHANGED mainVars
    /\ UNCHANGED callerVars

\* defer w.processingWg.Done() of a finished goroutine
Done(w, t) ==
    /\ processingWg' = [processingWg EXCEPT ![w] = @ - 1]
    /\ tasks' = [tasks EXCEPT ![w] = @ \ {t}]

\* shouldRetry := retryCount < maxRetries, on the row GetNextJob returned
shouldRetry(t) == t.retry_count < t.max_retries

\* json.Unmarshal fails: FailJob(retry = false)
TaskParseFail(w, t, storeOk) ==
    /\ Alive
    /\ t \in tasks[w]
    /\ ~UnmarshalOk(t.payload)
    /\ jobs' = IF storeOk THEN FailJob(jobs, t.id, ParseMsg, FALSE, now) ELSE jobs
    /\ Done(w, t)
    /\ UNCHANGED <<now, wpc, sel, stopCh, dispatched, attempts, crashed>>
    /\ UNCHANGED mainVars
    /\ UNCHANGED callerVars

\* the missing processor treated as a handler failure: FailJob(retry = shouldRetry)
TaskNoProcessorRetried(w, t, storeOk) ==
    /\ Alive
    /\ t \in tasks[w]
    /\ UnmarshalOk(t.payload)
    /\ t.job_type \notin processors
    /\ jobs' = IF storeOk THEN FailJob(jobs, t.id, NoProcessorMsg, shouldRetry(t), now) ELSE jobs
    /\ Done(w, t)
    /\ UNCHANGED <<now, wpc, sel, stopCh, dispatched, attempts, crashed>>
    /\ UNCHANGED mainVars
    /\ UNCHANGED callerVars

\* no entry in processors: FailJob(retry = false)
TaskNoProcessor(w, t, storeOk) ==
    /\ Alive
    /\ t \in tasks[w]
    /\ UnmarshalOk(t.payload)
    /\ t.job_type \notin processors
    /\ jobs' = IF storeOk THEN FailJob(jobs, t.id, NoProcessorMsg, FALSE, now) ELSE jobs
    /\ Done(w, t)
    /\ UNCHANGED <<now, wpc, sel, stopCh, dispatched, attempts, crashed>>
    /\ UNCHANGED mainVars
    /\ UNCHANGED callerVars

\* UserCreatedProcessor dereferences payload.UserID
Panics(t) == t.job_type = "user_created" /\ Unmarshal(t.payload) = "no_user_id"

\* processor.Process returns nil: CompleteJob
TaskComplete(w, t, storeOk) ==
    /\ Alive
    /\ t \in tasks[w]
    /\ UnmarshalOk(t.payload)
    /\ t.job_type \in processors
    /\ ~Panics(t)
    /\ attempts' = [attempts EXCEPT ![t.id] = @ + 1]
    /\ jobs' = IF storeOk THEN CompleteJob(jobs, t.id, now) ELSE jobs
    /\ Done(w, t)
    /\ UNCHANGED <<now, wpc, sel, stopCh, dispatched, crashed>>
    /\ UNCHANGED mainVars
    /\ UNCHANGED callerVars

\* processor.Process returns an error: FailJob(retry = shouldRetry)
TaskFail(w, t, storeOk) ==
    /\ Alive
    /\ t \in tasks[w]
    /\ UnmarshalOk(t.payload)
    /\ t.job_type \in processors
    /\ ~Panics(t)
    /\ attempts' = [attempts EXCEPT ![t.id] = @ + 1]
    /\ jobs' = IF storeOk THEN FailJob(jobs, t.id, HandlerMsg, shouldRetry(t), now) ELSE jobs
    /\ Done(w, t)
    /\ UNCHANGED <<now, wpc, sel, stopCh, dispatched, crashed>>
    /\ UNCHANGED mainVars
    /\ UNCHANGED callerVars

\* processor.Process panics: no recover, the process dies
TaskPanic(w, t) ==
    /\ Alive
    /\ t \in tasks[w]
    /\ UnmarshalOk(t.payload)
    /\ t.job_type \in processors
    /\ Panics(t)
    /\ attempts' = [attempts EXCEPT ![t.id] = @ + 1]
    /\ crashed' = TRUE
    /\ UNCHANGED <<jobs, now, wpc, sel, stopCh, processingWg, tasks, dispatched>>
    /\ UNCHANGED mainVars
    /\ UNCHANGED callerVars

\* the stop signal cancelling the goroutines in flight
SelectStopCancels(w) ==
    /\ Alive
    /\ wpc[w] = "select"
    /\ stopCh[w]
    /\ wpc' = [wpc EXCEPT ![w] = "wait"]
    /\ tasks' = [tasks EXCEPT ![w] = {}]
    /\ processingWg' = [processingWg EXCEPT ![w] = 0]
    /\ UNCHANGED <<jobs, now, sel, stopCh, dispatched, attempts, crashed>>
    /\ UNCHANGED mainVars
    /\ UNCHANGED callerVars

\* case <-w.stopCh: of the select in Start
SelectStop(w) ==
    /\ Alive
    /\ wpc[w] = "select"
    /\ stopCh[w]
    /\ wpc' = [wpc EXCEPT ![w] = "wait"]
    /\ UNCHANGED <<jobs, now, sel, stopCh, processingWg, tasks, dispatched, attempts, crashed>>
    /\ UNCHANGED mainVars
    /\ UNCHANGED callerVars

\* Start returning on the stop signal without waiting
WaitReturnsAtOnce(w) == TRUE

\* processingWg.Wait() lets the caller pass
WaitReturns(w) == processingWg[w] = 0

\* processingWg.Wait() returns, Start returns, deferred wg.Done()
WorkerStopped(w) ==
    /\ Alive
    /\ wpc[w] = "wait"
    /\ WaitReturns(w)
    /\ wpc' = [wpc EXCEPT ![w] = "stopped"]
    /\ wg' = wg - 1
    /\ UNCHANGED <<jobs, now, sel, stopCh, processingWg, tasks, dispatched, attempts, crashed>>
    /\ UNCHANGED <<mainPc, stopIdx, statsPc>>
    /\ UNCHANGED callerVars

\* ------------------------------------------------------------------ main

\* a signal arrives on sigCh and main's <-sigCh receives it
MainReceive ==
    /\ Alive
    /\ mainPc = "await_signal"
    /\ mainPc' = "stopping"
    /\ stopIdx' = 1
    /\ UNCHANGED <<jobs, now>>
    /\ UNCHANGED workerVars
    /\ UNCHANGED <<statsPc, wg>>
    /\ UNCHANGED callerVars

\* a signal arrives on sigCh and the stats goroutine's case <-sigCh: receives it
StatsReceive ==
    /\ Alive
    /\ statsPc = "running"
    /\ statsPc' = "returned"
    /\ UNCHANGED <<jobs, now>>
    /\ UNCHANGED workerVars
    /\ UNCHANGED <<mainPc, stopIdx, wg>>
    /\ UNCHANGED callerVars

\* worker.Stop() in main's loop: close(w.stopCh)
Stop ==
    /\ Alive
    /\ mainPc = "stopping"
    /\ stopCh' = [stopCh EXCEPT ![stopIdx] = TRUE]
    /\ IF stopIdx = NumWorkers
       THEN mainPc' = "wg_wait" /\ UNCHANGED stopIdx
       ELSE stopIdx' = stopIdx + 1 /\ UNCHANGED mainPc
    /\ UNCHANGED <<jobs, now, wpc, sel, processingWg, tasks, dispatched, attempts, crashed>>
    /\ UNCHANGED <<statsPc, wg>>
    /\ UNCHANGED callerVars

\* wg.Wait() returns and main returns
MainExit ==
    /\ Alive
    /\ mainPc = "wg_wait"
    /\ wg = 0
    /\ mainPc' = "exited"
    /\ UNCHANGED <<jobs, now>>
    /\ UNCHANGED workerVars
    /\ UNCHANGED <<stopIdx, statsPc, wg>>
    /\ UNCHANGED callerVars

\* ------------------------------------------------------------ the system

Init ==
    /\ jobs = << >>
    /\ now = 0
    /\ wpc = [w \in Workers |-> "select"]
    /\ sel = [w \in Workers |-> NoSel]
    /\ stopCh = [w \in Workers |-> FALSE]
    /\ processingWg = [w \in Workers |-> 0]
    /\ tasks = [w \in Workers |-> {}]
    /\ dispatched = 0
    /\ attempts = << >>
    /\ crashed = FALSE
    /\ mainPc = "await_signal"
    /\ stopIdx = 0
    /\ statsPc = "running"
    /\ wg = NumWorkers
    /\ users = 0
    /\ createUserRet = NoRet
    /\ listJobsRet = << >>

\* the jobs the callers of EnqueueJob make: CreateUser and worker-manager enqueue
\* (user_created with user_id, data_export with a message only), and a direct
\* caller passing a user_created payload without user_id
JobKinds ==
    {<<"user_created", "with_user_id">>, <<"user_created", "no_user_id">>,
     <<"data_export", "no_user_id">>}

Enqueue ==
    /\ Len(jobs) < MaxPoolJobs
    /\ \E k \in JobKinds, pr \in Priorities : EnqueueJob(k[1], k[2], pr, TRUE)
Foreign ==
    /\ Len(jobs) < MaxPoolJobs
    /\ \E pr \in Priorities : CreateJobForeign("user_created", pr)
Poll == \E w \in Workers : GetNextJobSelect(w, TRUE)
Claim == \E w \in Workers : GetNextJobUpdate(w, TRUE)
ParseFail == \E w \in Workers : \E t \in tasks[w] : TaskParseFail(w, t, TRUE)
NoProcessor == \E w \in Workers : \E t \in tasks[w] : TaskNoProcessor(w, t, TRUE)
Complete == \E w \in Workers : \E t \in tasks[w] : TaskComplete(w, t, TRUE)
Fail == \E w \in Workers : \E t \in tasks[w] : TaskFail(w, t, TRUE)
Panic == \E w \in Workers : \E t \in tasks[w] : TaskPanic(w, t)
StopCase == \E w \in Workers : SelectStop(w)
Stopped == \E w \in Workers : WorkerStopped(w)

Next ==
    \/ Enqueue
    \/ Foreign
    \/ AdvanceClock
    \/ Poll
    \/ Claim
    \/ ParseFail
    \/ NoProcessor
    \/ Complete
    \/ Fail
    \/ Panic

Spec == Init /\ [][Next]_vars

\* SpecQueue: one claimer (worker 1) and up to MaxJobs user_created jobs
EnqueueUserCreated ==
    /\ Len(jobs) < MaxJobs
    /\ \E pr \in Priorities : EnqueueJob("user_created", "with_user_id", pr, TRUE)
PollOne == GetNextJobSelect(1, TRUE)
ClaimOne == GetNextJobUpdate(1, TRUE)
CompleteOne == \E t \in tasks[1] : TaskComplete(1, t, TRUE)
FailOne == \E t \in tasks[1] : TaskFail(1, t, TRUE)

NextQueue ==
    \/ EnqueueUserCreated
    \/ AdvanceClock
    \/ PollOne
    \/ ClaimOne
    \/ CompleteOne
    \/ FailOne

SpecQueue == Init /\ [][NextQueue]_vars

\* SpecShutdown: the pool fed by DatabaseService.CreateUser, with the shutdown signal
EnqueueCreateUser ==
    /\ Len(jobs) < MaxPoolJobs
    /\ EnqueueJob("user_created", "with_user_id", UserCreatedPriority, TRUE)

NextShutdown ==
    \/ EnqueueCreateUser
    \/ AdvanceClock
    \/ Poll
    \/ Claim
    \/ Complete
    \/ Fail
    \/ StopCase
    \/ Stopped
    \/ MainReceive
    \/ StatsReceive
    \/ Stop
    \/ MainExit

SpecShutdown == Init /\ [][NextShutdown]_vars

\* SpecSignal: SpecShutdown with exactly one signal sent to the process. sigCh
\* has two receivers, main and the stats goroutine; the signal goes to one of them.
SignalToMain == statsPc = "running" /\ MainReceive
SignalToStats == mainPc = "await_signal" /\ StatsReceive

NextSignal ==
    \/ EnqueueCreateUser
    \/ AdvanceClock
    \/ Poll
    \/ Claim
    \/ Complete
    \/ Fail
    \/ StopCase
    \/ Stopped
    \/ SignalToMain
    \/ SignalToStats
    \/ Stop
    \/ MainExit

\* every goroutine that can run does run; a select with a ready case that is
\* ready again and again takes it in the end; every handler returns
FairSignal ==
    /\ \A w \in Workers :
         /\ WF_vars(GetNextJobUpdate(w, TRUE))
         /\ WF_vars(\E t \in tasks[w] : TaskComplete(w, t, TRUE) \/ TaskFail(w, t, TRUE))
         /\ SF_vars(SelectStop(w))
         /\ WF_vars(WorkerStopped(w))
    /\ WF_vars(Stop)
    /\ WF_vars(MainExit)

SpecSignal == Init /\ [][NextSignal]_vars /\ FairSignal

\* SpecCreateUser: the API server creating users while one worker takes the jobs
CreateUsers ==
    /\ users < MaxUsers
    /\ \E insertOk \in BOOLEAN, enqueueOk \in BOOLEAN : CreateUser(insertOk, enqueueOk)

NextCreateUser ==
    \/ CreateUsers
    \/ AdvanceClock
    \/ PollOne
    \/ ClaimOne
    \/ CompleteOne
    \/ FailOne

SpecCreateUser == Init /\ [][NextCreateUser]_vars

\* SpecList: worker-manager list beside jobs being enqueued, claimed and completed
Statuses == {"pending", "processing", "completed", "failed"}
Limits == 0..MaxLimit

EnqueueListed ==
    /\ Len(jobs) < MaxListJobs
    /\ EnqueueJob("user_created", "with_user_id", UserCreatedPriority, TRUE)

List == \E status \in Statuses, limit \in Limits : ListJobsCall(status, limit)

NextList ==
    \/ EnqueueListed
    \/ AdvanceClock
    \/ PollOne
    \/ ClaimOne
    \/ CompleteOne
    \/ List

SpecList == Init /\ [][NextList]_vars

\* SpecFault: one worker and a store whose statements can fail
PollFault == \E storeOk \in BOOLEAN : GetNextJobSelect(1, storeOk)
ClaimFault == \E storeOk \in BOOLEAN : GetNextJobUpdate(1, storeOk)
CompleteFault == \E t \in tasks[1], storeOk \in BOOLEAN : TaskComplete(1, t, storeOk)
FailFault == \E t \in tasks[1], storeOk \in BOOLEAN : TaskFail(1, t, storeOk)

NextFault ==
    \/ EnqueueUserCreated
    \/ AdvanceClock
    \/ PollFault
    \/ ClaimFault
    \/ CompleteFault
    \/ FailFault

SpecFault == Init /\ [][NextFault]_vars

\* SpecPickup: one running worker that goes on polling, a store that is
\* available and handlers that succeed
NextPickup ==
    \/ EnqueueUserCreated
    \/ AdvanceClock
    \/ PollOne
    \/ ClaimOne
    \/ CompleteOne

\* the ticker fires every second and the loop takes the tick; GetNextJob, once
\* it has selected a row, goes on to its UPDATE
FairPickup == WF_vars(PollOne) /\ WF_vars(ClaimOne)

SpecPickup == Init /\ [][NextPickup]_vars /\ FairPickup

\* ------------------------------------------------------------ properties

\* the goroutines, over all workers, that hold job j and have not reported
InFlight(j) == UNION {{<<w, t>> : t \in {u \in tasks[w] : u.id = j}} : w \in Workers}

\* worker w's GetNextJob returns a row in this step
Returns(w) == wpc[w] = "claim" /\ wpc'[w] = "select" /\ dispatched' = dispatched + 1

\* C1: claim exclusivity. Between a job becoming pending and the next report
\* on it, at most one GetNextJob call returns it: no job is ever held by two
\* goroutines that have not reported yet.
C1_ClaimExclusivity ==
    \A j \in DOMAIN jobs : Cardinality(InFlight(j)) <= 1

\* C2: claim ordering. The row GetNextJob selects is eligible at the time of
\* the call, no eligible row has a higher priority, and no eligible row of the
\* same priority has an earlier scheduled_at.
C2_ClaimOrdering ==
    [][\A w \in Workers :
         (wpc[w] = "select" /\ wpc'[w] = "claim") =>
            LET j == sel'[w].id IN
            /\ j \in DOMAIN jobs
            /\ jobs[j].status = "pending"
            /\ \A k \in DOMAIN jobs :
                 (/\ jobs[k].status = "pending"
                  /\ jobs[k].scheduled_at <= now
                  /\ jobs[k].retry_count < jobs[k].max_retries) =>
                     /\ jobs[k].priority <= jobs[j].priority
                     /\ (jobs[k].priority = jobs[j].priority =>
                            jobs[j].scheduled_at <= jobs[k].scheduled_at)]_vars

\* C2 witness: GetNextJob has selected the job enqueued later because its
\* priority is higher than that of an eligible job enqueued before it
C2_Witness ==
    \E w \in Workers :
        /\ wpc[w] = "claim"
        /\ \E k \in Eligible(jobs, now) :
             /\ k < sel[w].id
             /\ jobs[k].priority < jobs[sel[w].id].priority

\* C3: claim eligibility. A job that GetNextJob returns is, when it is marked
\* processing and returned, pending, due (scheduled_at <= now) and has
\* retry_count < max_retries.
C3_ClaimEligibility ==
    [][\A w \in Workers :
         Returns(w) =>
            /\ jobs[sel[w].id].status = "pending"
            /\ jobs[sel[w].id].scheduled_at <= now
            /\ jobs[sel[w].id].retry_count < jobs[sel[w].id].max_retries]_vars

\* C4: retry exhaustion. A job with max_retries = 3 that has failed three times
\* (retry_count has reached 3) is failed, not pending again.
C4_RetryExhaustion ==
    \A j \in DOMAIN jobs :
        (jobs[j].max_retries = 3 /\ jobs[j].retry_count >= 3) => jobs[j].status = "failed"

C6_RetryCountBounded ==
    \A j \in DOMAIN jobs : jobs[j].retry_count <= jobs[j].max_retries

\* C7: terminal immutability. Once a job is completed or failed, no step
\* changes its status.
C7_TerminalImmutable ==
    [][\A j \in DOMAIN jobs :
         jobs[j].status \in {"completed", "failed"} => jobs'[j].status = jobs[j].status]_vars

\* C8: permanent failures are never retried. When the goroutine of a job whose
\* payload does not deserialize, or whose type has no processor, ends, the job
\* is failed, its retry_count is unchanged, the error message is recorded and
\* no handler has been invoked.
C8_PermanentFailure ==
    [][\A w \in Workers : \A t \in tasks[w] :
         (/\ t \notin tasks'[w]
          /\ \/ t.payload \notin {"{user_id:1}", "{}"}
             \/ t.job_type \notin {"user_created", "data_analysis", "email_notification"}) =>
            /\ jobs'[t.id].status = "failed"
            /\ jobs'[t.id].retry_count = jobs[t.id].retry_count
            /\ jobs'[t.id].error_message =
                  (IF t.payload \notin {"{user_id:1}", "{}"} THEN ParseMsg ELSE NoProcessorMsg)
            /\ attempts' = attempts]_vars

\* C8 witness: a data_export job has been claimed and failed for want of a
\* processor, with no retry counted and no handler run
C8_Witness ==
    \E j \in DOMAIN jobs :
        /\ jobs[j].job_type = "data_export"
        /\ jobs[j].status = "failed"
        /\ jobs[j].error_message = NoProcessorMsg
        /\ jobs[j].retry_count = 0
        /\ jobs[j].started_at = Null
        /\ jobs[j].completed_at # Null
        /\ attempts[j] = 0

\* C9: no new claims after the stop signal. Once stopCh of a worker is closed,
\* that worker's loop does not start a GetNextJob call that selects a job.
C9_NoClaimAfterStop ==
    [][\A w \in Workers :
         (stopCh[w] /\ wpc[w] = "select") => wpc'[w] # "claim"]_vars

\* C10: drain. A worker that has reached Stopped has no goroutine left that
\* has not reported, and its in-flight counter is zero.
C10_Drain ==
    \A w \in Workers :
        wpc[w] = "stopped" => (processingWg[w] = 0 /\ tasks[w] = {})

\* C10 witness: every worker has stopped after jobs were dispatched, and a
\* dispatched job has its outcome
C10_Witness ==
    /\ \A w \in Workers : wpc[w] = "stopped"
    /\ dispatched >= 2
    /\ \E j \in DOMAIN jobs : jobs[j].status \in {"completed", "failed", "pending"} /\ attempts[j] >= 2

\* the one signal has been sent to the process and received from sigCh
SignalDelivered == mainPc # "await_signal" \/ statsPc = "returned"

\* C11: pool shutdown terminates. After one shutdown signal is delivered, and
\* with every handler returning, all workers reach stopped and main returns.
C11_ShutdownTerminates ==
    SignalDelivered ~> (mainPc = "exited" /\ \A w \in Workers : wpc[w] = "stopped")

\* C12: EnqueueJob adds exactly one job, with an id larger than every earlier
\* one, status pending, retry_count 0, max_retries 3, the given type and
\* priority and scheduled_at equal to the enqueue time, so that it is eligible
\* at once; it changes no existing job.
C12_EnqueueJob ==
    [][\A k \in JobKinds, pr \in Priorities :
         EnqueueJob(k[1], k[2], pr, TRUE) =>
            LET id == Len(jobs') IN
            /\ Len(jobs') = Len(jobs) + 1
            /\ \A i \in DOMAIN jobs : i < id /\ jobs'[i] = jobs[i]
            /\ jobs'[id].status = "pending"
            /\ jobs'[id].retry_count = 0
            /\ jobs'[id].max_retries = 3
            /\ jobs'[id].job_type = k[1]
            /\ jobs'[id].priority = pr
            /\ jobs'[id].scheduled_at = now
            /\ id \in Eligible(jobs', now)]_vars

\* C12 witness: a second job of priority 1 has been enqueued at a later time,
\* beside a job that has already completed
C12_Witness ==
    /\ Len(jobs) = 2
    /\ jobs[1].status = "completed"
    /\ jobs[2].status = "pending" /\ jobs[2].retry_count = 0
    /\ jobs[2].priority = 1
    /\ now > 0 /\ jobs[2].scheduled_at = now /\ jobs[2].created_at = now

\* the jobs that have the given status now
WithStatus(st) == {j \in DOMAIN jobs : jobs[j].status = st}

\* C13: GetJobStats returns, for each of pending, processing, completed and
\* failed, the number of jobs now in that status, and the four counts sum to
\* the number of jobs ever enqueued.
C13_JobStats ==
    LET stats == GetJobStats(jobs) IN
    /\ stats.pending_count = Cardinality(WithStatus("pending"))
    /\ stats.processing_count = Cardinality(WithStatus("processing"))
    /\ stats.completed_count = Cardinality(WithStatus("completed"))
    /\ stats.failed_count = Cardinality(WithStatus("failed"))
    /\ stats.pending_count + stats.processing_count + stats.completed_count
          + stats.failed_count = Len(attempts)

\* C13 witness: the statistics are taken while an enqueued job is being
\* processed after an earlier attempt on it failed
C13_Witness ==
    /\ GetJobStats(jobs).processing_count = 1
    /\ Len(attempts) = 1
    /\ attempts[1] >= 1
    /\ tasks # [w \in Workers |-> {}]

\* C14: a claim leaves the job processing with started_at set to the claim
\* time, and the report that ends the processing (CompleteJob, FailJob) does
\* not modify started_at, so that every completed job has one.
C14_StartedAt ==
    [][\A j \in DOMAIN jobs :
         /\ (jobs[j].status = "pending" /\ jobs'[j].status = "processing") =>
                jobs'[j].started_at = now
         /\ (jobs[j].status = "processing" /\ jobs'[j].status # "processing") =>
                jobs'[j].started_at = jobs[j].started_at
         /\ jobs'[j].status = "completed" => jobs'[j].started_at # Null]_vars

\* C15: in every reachable state a job has completed_at set if and only if its
\* status is completed or failed.
C15_CompletedAt ==
    \A j \in DOMAIN jobs :
        jobs[j].completed_at # Null <=> jobs[j].status \in {"completed", "failed"}

\* C16: a job's priority, max_retries, job type and payload never change after
\* creation: GetNextJob, CompleteJob and FailJob leave them as EnqueueJob set them.
C16_CreationFieldsFixed ==
    [][\A j \in DOMAIN jobs :
         /\ j \in DOMAIN jobs'
         /\ jobs'[j].priority = jobs[j].priority
         /\ jobs'[j].max_retries = jobs[j].max_retries
         /\ jobs'[j].job_type = jobs[j].job_type
         /\ jobs'[j].payload = jobs[j].payload]_vars

\* C16 witness: a job enqueued with priority 1 has been claimed, failed and
\* retried, claimed again and completed, and still has what EnqueueJob gave it
C16_Witness ==
    \E j \in DOMAIN jobs :
        /\ jobs[j].status = "completed"
        /\ jobs[j].retry_count >= 1
        /\ attempts[j] >= 2
        /\ jobs[j].priority = 1
        /\ jobs[j].max_retries = DefaultMaxRetries
        /\ jobs[j].job_type = "user_created"
        /\ jobs[j].payload = "{user_id:1}"

\* C17: fire-and-forget enqueue. A CreateUser that inserts the user returns
\* that user without error and keeps the user row even when EnqueueJob fails;
\* when the enqueue succeeds exactly one pending user_created job of priority
\* 1 is added for the user, and no other job is touched.
C17_FireAndForget ==
    [][\A enqueueOk \in BOOLEAN :
         CreateUser(TRUE, enqueueOk) =>
            /\ users' = users + 1
            /\ createUserRet'.err = FALSE
            /\ createUserRet'.user = users'
            /\ \A i \in DOMAIN jobs : jobs'[i] = jobs[i]
            /\ Len(jobs') = Len(jobs) + (IF enqueueOk THEN 1 ELSE 0)
            /\ enqueueOk =>
                  /\ jobs'[Len(jobs')].status = "pending"
                  /\ jobs'[Len(jobs')].job_type = "user_created"
                  /\ jobs'[Len(jobs')].priority = 1]_vars

\* C17 witness: two users exist and the last CreateUser returned the second
\* without error, although only one of the two enqueues succeeded
C17_Witness ==
    /\ users = 2
    /\ Len(jobs) = 1
    /\ createUserRet = [user |-> 2, err |-> FALSE]

C19_FailStartedJob ==
    [][\A t \in tasks[1] :
         (/\ TaskFail(1, t, TRUE)
          /\ jobs[t.id].status = "processing"
          /\ jobs[t.id].retry_count = 0) =>
            /\ jobs'[t.id].status = "failed"
            /\ jobs'[t.id].error_message = HandlerMsg
            /\ jobs'[t.id].retry_count = 1]_vars

\* C20: each job's status changes only along pending -> processing,
\* processing -> completed, processing -> failed and processing -> pending;
\* no other change of status ever occurs, for any number of workers.
C20_Transitions ==
    [][\A j \in DOMAIN jobs :
         jobs'[j].status # jobs[j].status =>
            <<jobs[j].status, jobs'[j].status>> \in
               {<<"pending", "processing">>, <<"processing", "completed">>,
                <<"processing", "failed">>, <<"processing", "pending">>}]_vars

\* C21: CompleteJob and FailJob take effect only on a job that is processing:
\* when a goroutine reports on a job that is pending, the job's status,
\* retry_count and scheduled_at stay as they are.
C21_ReportOnlyOnProcessing ==
    [][\A w \in Workers : \A t \in tasks[w] :
         (t \notin tasks'[w] /\ jobs[t.id].status = "pending") =>
            /\ jobs'[t.id].status = "pending"
            /\ jobs'[t.id].retry_count = jobs[t.id].retry_count
            /\ jobs'[t.id].scheduled_at = jobs[t.id].scheduled_at]_vars

\* the times up to the latest scheduled_at a retry can set
Times == 0..((MaxTicks + DefaultMaxRetries) * BackoffMinutes)

\* C22: every enqueued job eventually reaches completed or failed. No job is
\* left pending and ineligible for ever: a pending job that no goroutine holds
\* is one that GetNextPendingJob selects at some time.
C22_NoJobPendingForEver ==
    \A j \in DOMAIN jobs :
        (jobs[j].status = "pending" /\ InFlight(j) = {}) =>
            \E t \in Times : j \in Eligible(jobs, t)

\* C23: outcome reporting. Every goroutine a worker has dispatched ends with
\* exactly one report made after its handler has run: CompleteJob on success
\* (the job completed, completed_at set), FailJob on failure with retry =
\* (retry_count of the claimed row < max_retries); a closed stopCh neither
\* cancels the handler nor suppresses the report.
C23_OutcomeReporting ==
    [][\A w \in Workers : \A t \in tasks[w] :
         t \notin tasks'[w] =>
            /\ attempts'[t.id] = attempts[t.id] + 1
            /\ processingWg'[w] = processingWg[w] - 1
            /\ \/ /\ jobs'[t.id].status = "completed"
                  /\ jobs'[t.id].completed_at = now
               \/ /\ t.retry_count < t.max_retries
                  /\ jobs'[t.id].status = "pending"
                  /\ jobs'[t.id].retry_count = jobs[t.id].retry_count + 1
                  /\ jobs'[t.id].error_message = HandlerMsg
               \/ /\ t.retry_count >= t.max_retries
                  /\ jobs'[t.id].status = "failed"
                  /\ jobs'[t.id].retry_count = jobs[t.id].retry_count
                  /\ jobs'[t.id].error_message = HandlerMsg]_vars

\* C23 witness: a worker whose stopCh is closed waits with nothing in flight,
\* and the job it dispatched has been reported completed at this minute
C23_Witness ==
    \E w \in Workers :
        /\ stopCh[w] /\ wpc[w] = "wait" /\ processingWg[w] = 0
        /\ dispatched = 1
        /\ \A v \in Workers \ {w} : ~stopCh[v] /\ wpc[v] = "select"
        /\ \E j \in DOMAIN jobs :
             /\ jobs[j].status = "completed"
             /\ jobs[j].completed_at = now
             /\ attempts[j] = 1

\* C24: a failure of CompleteJob or FailJob at the store does not lose the
\* job: the worker does not crash, and no job is left processing once the
\* goroutine that claimed it has ended.
C24_ReportFailureKeepsJob ==
    /\ ~crashed
    /\ \A j \in DOMAIN jobs : jobs[j].status = "processing" => InFlight(j) # {}

\* C25: in every reachable state a job is processing only if some worker
\* holds a goroutine in flight for it, and every goroutine in flight is for a
\* job whose stored status is processing.
C25_ProcessingIffInFlight ==
    \A j \in DOMAIN jobs : jobs[j].status = "processing" <=> InFlight(j) # {}

\* C26: GetNextJob leaves the queue unchanged when it hands out no job. With
\* no pending, due job under its retry limit the worker selects nothing and
\* dispatches nothing; when the update to processing fails, no job is changed,
\* nothing is dispatched and the selected job is as eligible as it was.
C26_NoJobHandedOut ==
    [][\A w \in Workers :
         /\ (/\ wpc[w] = "select"
             /\ ~\E j \in DOMAIN jobs : /\ jobs[j].status = "pending"
                                        /\ jobs[j].scheduled_at <= now
                                        /\ jobs[j].retry_count < jobs[j].max_retries) =>
                /\ wpc'[w] = "select"
                /\ sel'[w] = NoSel
                /\ dispatched' = dispatched
                /\ \A j \in DOMAIN jobs : jobs'[j].status = "processing" => jobs[j].status = "processing"
         /\ GetNextJobUpdate(w, FALSE) =>
                /\ jobs' = jobs
                /\ tasks' = tasks
                /\ processingWg' = processingWg
                /\ dispatched' = dispatched
                /\ sel[w].id \in Eligible(jobs, now) => sel[w].id \in Eligible(jobs', now)]_vars

\* C26 witness: the worker is back at its select with nothing dispatched, while
\* the job it had selected for its second attempt is pending and due, and the
\* other job has been completed
C26_Witness ==
    /\ wpc[1] = "select" /\ sel[1] = NoSel /\ tasks[1] = {}
    /\ dispatched = 2
    /\ \E j \in Eligible(jobs, now) : jobs[j].retry_count = 1 /\ attempts[j] = 1
    /\ \E j \in DOMAIN jobs : jobs[j].status = "completed"

\* C27: bounded attempts. Across all workers and interleavings the handler of
\* a job is invoked at most max_retries (3) times over the job's lifetime.
C27_BoundedAttempts ==
    \A j \in DOMAIN jobs : attempts[j] <= jobs[j].max_retries

\* C28: no processing error crashes the worker process: every error met while
\* processing a claimed job, a user_created job without user_id included,
\* becomes a state of the job and the process keeps running.
C28_NoCrash == ~crashed

\* C29: error_message holds the last failure reason. Once a job has a failure
\* message, the message changes only when a goroutine reports a new failure
\* of the job; a claim for a retry and a completion leave it in place.
C29_LastFailureReason ==
    [][\A j \in DOMAIN jobs :
         jobs[j].error_message # NoMsg =>
            \/ jobs'[j].error_message = jobs[j].error_message
            \/ /\ jobs'[j].error_message \in {ParseMsg, NoProcessorMsg, HandlerMsg}
               /\ \E w \in Workers : \E t \in tasks[w] : t.id = j /\ t \notin tasks'[w]]_vars

\* C30: in every reachable state every failed job has an error_message, and
\* every pending job with retry_count > 0 has one.
C30_ErrorMessageSet ==
    \A j \in DOMAIN jobs :
        /\ jobs[j].status = "failed" => jobs[j].error_message # NoMsg
        /\ (jobs[j].status = "pending" /\ jobs[j].retry_count > 0) =>
              jobs[j].error_message # NoMsg

\* C30 witness: a job that failed twice is pending and due again, held by no
\* goroutine, with the handler's message
C30_Witness ==
    \E j \in Eligible(jobs, now) :
        /\ jobs[j].retry_count = 2
        /\ InFlight(j) = {}
        /\ attempts[j] = 2
        /\ jobs[j].error_message = HandlerMsg

\* C31: dispatch does not block the poll loop. Whatever the number of jobs a
\* worker has in flight, at its select with an eligible job in the store it
\* can take the tick and select that job: there is no cap per worker.
C31_DispatchDoesNotBlock ==
    \A w \in Workers :
        (/\ ~crashed /\ mainPc # "exited"
         /\ wpc[w] = "select"
         /\ \E j \in DOMAIN jobs : /\ jobs[j].status = "pending"
                                    /\ jobs[j].scheduled_at <= now
                                    /\ jobs[j].retry_count < jobs[j].max_retries
         /\ dispatched + Cardinality({v \in Workers : wpc[v] = "claim"}) < MaxDispatched) =>
            ENABLED (GetNextJobSelect(w, TRUE) /\ wpc'[w] = "claim")

\* C31 witness: worker 1 has two jobs in flight at the same time
C31_Witness ==
    \E t, u \in tasks[1] : t.id # u.id /\ processingWg[1] = 2

C34_InFlightCounter ==
    \A w \in Workers :
        /\ processingWg[w] >= 0
        /\ processingWg[w] = Cardinality(tasks[w])
        /\ wpc[w] = "stopped" => tasks[w] = {}

\* C34 witness: a worker that has seen the stop signal is held in Wait by the
\* count of the one goroutine it dispatched that has not finished
C34_Witness ==
    \E w \in Workers :
        /\ wpc[w] = "wait"
        /\ processingWg[w] = 1
        /\ Cardinality(tasks[w]) = 1
        /\ \E t \in tasks[w] : jobs[t.id].status = "processing"

====
